---- MODULE Spec2Model ----
(***************************************************************************)
(* Model of UIS_app.py: the cached CSV load and left merge (load_data),    *)
(* the page navigation kept in st.session_state.page (main,                *)
(* show_back_button, show_home, show_individual), and the two dataframe    *)
(* filters (create_line_chart_with_selection, show_cross).                 *)
(*                                                                         *)
(* One Streamlit script run (a "rerun") is one step: the user interacts    *)
(* with a widget that the previous run rendered, and the whole of main()   *)
(* runs with that widget reporting the interaction.                        *)
(*                                                                         *)
(* Line 4 of the script ("pip install plotly", a shell command) is not      *)
(* Python; the model describes the script without that line.               *)
(*                                                                         *)
(* Strings that the code transforms (indicator ids) are sequences of       *)
(* one-character strings; a dataframe is a sequence of records.            *)
(***************************************************************************)
EXTENDS Integers, Sequences, FiniteSets, TLC

VARIABLES
    data,               \* rows of UNESCO_edu_data.csv as read
    metadata,           \* rows of SDG_METADATA.csv as read
    label_data,         \* module-level label_data = load_data()
    page,               \* st.session_state.page
    shown,              \* the page function that ran in the last script run
    backShown,          \* whether the last run rendered the "Go Back" button
    clicked,            \* the widget interaction that triggered the last run
    selected,           \* value of the multiselect in the last run
    selected_indicator, \* value of the selectbox in the last run
    warning,            \* whether the last run showed st.warning
    fig,                \* rows handed to st.plotly_chart in the last run, or None
    df,                 \* the filtered frame computed last
    indicator_options,  \* options of the multiselect computed last
    query               \* which filter produced df, and its argument

vars == <<data, metadata, label_data, page, shown, backShown, clicked, selected,
          selected_indicator, warning, fig, df, indicator_options, query>>

-----------------------------------------------------------------------------
(* Bounds of the model *)

MaxRows == 3            \* observation rows in a source (data specification)
MaxMeta == 2            \* metadata rows in a source (data specification)
MaxSessionRows == 2     \* observation rows in a source (session specification)

-----------------------------------------------------------------------------
(* Strings *)

NaN == "NaN"            \* pandas' missing value
None == "None"          \* Python's None

\* code point order of the characters used
Ord(c) == CASE c = " " -> 32 [] c = "A" -> 65 [] c = "B" -> 66
            [] c = "a" -> 97 [] c = "b" -> 98

\* str.upper on one character
UpperChar(c) == CASE c = "a" -> "A" [] c = "b" -> "B" [] OTHER -> c

str_upper(s) == [k \in 1..Len(s) |-> UpperChar(s[k])]

RECURSIVE lstrip(_)
lstrip(s) == IF s # <<>> /\ Head(s) = " " THEN lstrip(Tail(s)) ELSE s

RECURSIVE rstrip(_)
rstrip(s) == IF s # <<>> /\ s[Len(s)] = " " THEN rstrip(SubSeq(s, 1, Len(s) - 1)) ELSE s

str_strip(s) == rstrip(lstrip(s))

\* Python's < on str: lexicographic by code point
RECURSIVE StrLess(_, _)
StrLess(s, t) ==
    IF t = <<>> THEN FALSE
    ELSE IF s = <<>> THEN TRUE
    ELSE IF Head(s) # Head(t) THEN Ord(Head(s)) < Ord(Head(t))
    ELSE StrLess(Tail(s), Tail(t))

-----------------------------------------------------------------------------
(* Input domains *)

CountryCodes == {"NPL", "USA"}
RawIds == {<<"a">>, <<" ", "A", " ">>, <<"b">>}
MetaIds == {<<"A">>, <<"b">>}
Labels == {"L1", "L2"}
Years == {2010}
Values == {1}

ObsRows == [country_id : CountryCodes, indicator_id : RawIds, indicator_desc : {"d"},
            year : Years, value : Values]
MetaRows == [INDICATOR_ID : MetaIds, INDICATOR_LABEL_EN : Labels]

Tables(rows, n) == UNION {[1..k -> rows] : k \in 0..n}

-----------------------------------------------------------------------------
(* load_data *)

\* drop('indicator_desc'), rename indicator_id -> INDICATOR_ID, .str.upper().str.strip()
PrepareBare(r) ==
    [country_id |-> r.country_id, INDICATOR_ID |-> r.indicator_id,
     year |-> r.year, value |-> r.value]

PrepareRow(r) ==
    [country_id |-> r.country_id, INDICATOR_ID |-> str_strip(str_upper(r.indicator_id)),
     year |-> r.year, value |-> r.value]

WithLabel(r, label) ==
    [country_id |-> r.country_id, INDICATOR_ID |-> r.INDICATOR_ID,
     year |-> r.year, value |-> r.value, INDICATOR_LABEL_EN |-> label]

RightMatches(m, id) == SelectSeq(m, LAMBDA e : e.INDICATOR_ID = id)

\* rows a left row yields under how="inner": one per matching right row
InnerMergeRow(r, m) ==
    LET ms == RightMatches(m, r.INDICATOR_ID)
    IN  [k \in 1..Len(ms) |-> WithLabel(r, ms[k].INDICATOR_LABEL_EN)]

\* rows a left row yields under how="left": one per matching right row, or one
\* with the right columns missing
MergeRow(r, m) ==
    LET ms == RightMatches(m, r.INDICATOR_ID)
    IN  IF ms = <<>> THEN <<WithLabel(r, NaN)>>
        ELSE [k \in 1..Len(ms) |-> WithLabel(r, ms[k].INDICATOR_LABEL_EN)]

RECURSIVE pd_merge(_, _)
pd_merge(d, m) ==
    IF d = <<>> THEN <<>> ELSE MergeRow(Head(d), m) \o pd_merge(Tail(d), m)

load_data(d, m) == pd_merge([k \in 1..Len(d) |-> PrepareRow(d[k])], m)

-----------------------------------------------------------------------------
(* Dataframe operations *)

\* DataFrame.drop_duplicates(): the first occurrence of each row, in order
RECURSIVE drop_duplicates(_)
drop_duplicates(t) ==
    IF t = <<>> THEN <<>>
    ELSE LET init == drop_duplicates(SubSeq(t, 1, Len(t) - 1))
             last == t[Len(t)]
         IN  IF \E k \in 1..Len(init) : init[k] = last THEN init ELSE Append(init, last)

\* DataFrame.sort_values('INDICATOR_ID'), ascending
RECURSIVE InsertSorted(_, _)
InsertSorted(t, r) ==
    IF t = <<>> THEN <<r>>
    ELSE IF StrLess(r.INDICATOR_ID, Head(t).INDICATOR_ID) THEN <<r>> \o t
    ELSE <<Head(t)>> \o InsertSorted(Tail(t), r)

RECURSIVE sort_values(_)
sort_values(t) ==
    IF t = <<>> THEN <<>>
    ELSE InsertSorted(sort_values(SubSeq(t, 1, Len(t) - 1)), t[Len(t)])

\* label_data[label_data['country_id'] == country_code]
FilterByCountry(t, c) == SelectSeq(t, LAMBDA r : r.country_id = c)

\* the distinct (id, label) pairs left in row order
UniqueIndicatorsUnsorted(t) ==
    drop_duplicates(
        [k \in 1..Len(t) |-> [INDICATOR_ID |-> t[k].INDICATOR_ID,
                              INDICATOR_LABEL_EN |-> t[k].INDICATOR_LABEL_EN]])

\* df[['INDICATOR_ID', 'INDICATOR_LABEL_EN']].drop_duplicates().sort_values('INDICATOR_ID')
UniqueIndicators(t) ==
    sort_values(drop_duplicates(
        [k \in 1..Len(t) |-> [INDICATOR_ID |-> t[k].INDICATOR_ID,
                              INDICATOR_LABEL_EN |-> t[k].INDICATOR_LABEL_EN]]))

\* unique_indicators['INDICATOR_ID'].tolist()
IndicatorOptions(t) ==
    LET u == UniqueIndicators(t) IN [k \in 1..Len(u) |-> u[k].INDICATOR_ID]

\* the rows of one indicator with repeated rows kept
FilterByIndicatorKeepAll(t, i) == SelectSeq(t, LAMBDA r : r.INDICATOR_ID = i)

\* label_data[label_data["INDICATOR_ID"] == selected_indicator].drop_duplicates()
FilterByIndicator(t, i) == drop_duplicates(SelectSeq(t, LAMBDA r : r.INDICATOR_ID = i))

-----------------------------------------------------------------------------
(* Navigation setup *)

PAGES == {"home", "individual", "cross", "Nepal", "Estonia", "Sierra Leone", "USA"}
COUNTRY_PAGES == {"Nepal", "Estonia", "Sierra Leone", "USA"}

Absent == "<absent>"    \* "page" not in st.session_state

PARENTS_wrong_key == ("Nepal" :> "individual") @@ ("Estonia" :> "individual")
    @@ ("Sierra Leone" :> "individual") @@ ("USA" :> "individual")
    @@ ("individual" :> "home") @@ ("cross" :> "Home")

PARENTS_wrong_parent == ("Nepal" :> "individual") @@ ("Estonia" :> "individual")
    @@ ("Sierra Leone" :> "individual") @@ ("USA" :> "individual")
    @@ ("individual" :> "home") @@ ("cross" :> "individual")

PARENTS == ("Nepal" :> "individual") @@ ("Estonia" :> "individual")
    @@ ("Sierra Leone" :> "individual") @@ ("USA" :> "individual")
    @@ ("individual" :> "home") @@ ("cross" :> "home")

\* the country code each country page passes to create_line_chart_with_selection
COUNTRY_CODE == ("Nepal" :> "NPL") @@ ("Estonia" :> "EST")
    @@ ("Sierra Leone" :> "SLE") @@ ("USA" :> "USA")

\* keys of the indicators dict of show_cross, in order
indicators == << <<"A">>, <<"B">> >>

(* Widget interactions: what the user did to trigger a script run *)
NoEvent == [type |-> "none", label |-> "", sel |-> {}, ind |-> <<>>]
Press(b) == [type |-> "button", label |-> b, sel |-> {}, ind |-> <<>>]
Pick(S) == [type |-> "multiselect", label |-> "", sel |-> S, ind |-> <<>>]
Choose(i) == [type |-> "selectbox", label |-> "", sel |-> {}, ind |-> i]

\* st.button(label): True in the run that the press of this button triggered
st_button(label, ev) == ev = Press(label)

NoQuery == [kind |-> "none", country |-> "", ind |-> <<>>]
CountryQuery(c) == [kind |-> "country", country |-> c, ind |-> <<>>]
IndicatorQuery(i) == [kind |-> "indicator", country |-> "", ind |-> i]

\* what a page function leaves behind when it has no data widgets
Plain(p) ==
    [page |-> p, selected |-> {}, selected_indicator |-> None, warning |-> FALSE,
     fig |-> None, df |-> <<>>, indicator_options |-> <<>>, query |-> NoQuery]

\* show_back_button: [page, backShown]
show_back_button(p, ev) ==
    IF p # "home"
    THEN [backShown |-> TRUE,
          page |-> IF st_button("Go Back", ev) THEN PARENTS[p] ELSE p]
    ELSE [backShown |-> FALSE, page |-> p]

show_home(p, ev) ==
    LET p1 == IF st_button("Individual Analysis", ev) THEN "individual" ELSE p
        p2 == IF st_button("Cross-country Analysis", ev) THEN "cross" ELSE p1
    IN  Plain(p2)

show_individual(p, ev) ==
    LET p1 == IF st_button("Nepal", ev) THEN "Nepal" ELSE p
        p2 == IF st_button("USA", ev) THEN "USA" ELSE p1
        p3 == IF st_button("Estonia", ev) THEN "Estonia" ELSE p2
        p4 == IF st_button("Sierra Leone", ev) THEN "Sierra Leone" ELSE p3
    IN  Plain(p4)

Range(s) == {s[k] : k \in 1..Len(s)}

\* st.multiselect(options, default=options): the user's new choice in the run that
\* the choice triggered, the kept value while the widget stays on screen, the
\* default when the widget is new
st_multiselect(options, ev, kept, prevSel) ==
    IF ev.type = "multiselect" THEN ev.sel
    ELSE IF kept THEN prevSel
    ELSE Range(options)

\* st.selectbox(options): as st_multiselect, the default being the first option
st_selectbox(options, ev, kept, prevInd) ==
    IF ev.type = "selectbox" THEN ev.ind
    ELSE IF kept THEN prevInd
    ELSE options[1]

\* create_line_chart_with_selection without the empty-selection return
create_line_chart_always(p, country_code, ev, kept, prevSel, table) ==
    LET d == FilterByCountry(table, country_code)
        opts == IndicatorOptions(d)
        sel == st_multiselect(opts, ev, kept, prevSel)
    IN  [page |-> p, selected |-> sel, selected_indicator |-> None,
         warning |-> FALSE,
         fig |-> SelectSeq(d, LAMBDA r : r.INDICATOR_ID \in sel),
         df |-> d, indicator_options |-> opts, query |-> CountryQuery(country_code)]

\* create_line_chart_with_selection and the page function's
\* "if fig is not None: st.plotly_chart(fig)"
create_line_chart_with_selection(p, country_code, ev, kept, prevSel, table) ==
    LET d == FilterByCountry(table, country_code)
        opts == IndicatorOptions(d)
        sel == st_multiselect(opts, ev, kept, prevSel)
    IN  [page |-> p, selected |-> sel, selected_indicator |-> None,
         warning |-> (sel = {}),
         fig |-> IF sel = {} THEN None
                 ELSE SelectSeq(d, LAMBDA r : r.INDICATOR_ID \in sel),
         df |-> d, indicator_options |-> opts, query |-> CountryQuery(country_code)]

show_cross(p, ev, kept, prevInd, table) ==
    LET i == st_selectbox(indicators, ev, kept, prevInd)
        d == FilterByIndicator(table, i)
    IN  [page |-> p, selected |-> {}, selected_indicator |-> i, warning |-> FALSE,
         fig |-> d, df |-> d, indicator_options |-> <<>>, query |-> IndicatorQuery(i)]

\* main(): the state one script run leaves, from the session's page (or Absent),
\* the interaction that triggered the run, and what the previous run rendered
main(p0, ev, prevShown, prevSel, prevInd, table) ==
    LET p == IF p0 = Absent THEN "home" ELSE p0
        b == show_back_button(p, ev)
        q == b.page
        r == IF q = "home" THEN show_home(q, ev)
             ELSE IF q = "individual" THEN show_individual(q, ev)
             ELSE IF q = "cross" THEN show_cross(q, ev, prevShown = q, prevInd, table)
             ELSE IF q \in COUNTRY_PAGES
                  THEN create_line_chart_with_selection(q, COUNTRY_CODE[q], ev,
                                                        prevShown = q, prevSel, table)
             ELSE Plain(q)
    IN  [page |-> r.page, shown |-> IF q \in PAGES THEN q ELSE None,
         backShown |-> b.backShown, selected |-> r.selected,
         selected_indicator |-> r.selected_indicator, warning |-> r.warning,
         fig |-> r.fig, df |-> r.df, indicator_options |-> r.indicator_options,
         query |-> r.query]

-----------------------------------------------------------------------------
(* The session: one action per kind of user interaction, each a whole script run *)

SessionMeta == { <<>>,
                 <<[INDICATOR_ID |-> <<"A">>, INDICATOR_LABEL_EN |-> "L1"]>>,
                 <<[INDICATOR_ID |-> <<"A">>, INDICATOR_LABEL_EN |-> "L1"],
                   [INDICATOR_ID |-> <<"b">>, INDICATOR_LABEL_EN |-> "L2"]>> }

Run(p0, ev) ==
    LET r == main(p0, ev, shown, selected, selected_indicator, label_data)
    IN  /\ page' = r.page
        /\ shown' = r.shown
        /\ backShown' = r.backShown
        /\ clicked' = ev
        /\ selected' = r.selected
        /\ selected_indicator' = r.selected_indicator
        /\ warning' = r.warning
        /\ fig' = r.fig
        /\ df' = r.df
        /\ indicator_options' = r.indicator_options
        /\ query' = r.query
        /\ UNCHANGED <<data, metadata, label_data>>

\* the first script run of a session
FirstRun(table) == main(Absent, NoEvent, None, {}, None, table)

Loaded(r) ==
    /\ page = r.page
    /\ shown = r.shown
    /\ backShown = r.backShown
    /\ clicked = NoEvent
    /\ selected = r.selected
    /\ selected_indicator = r.selected_indicator
    /\ warning = r.warning
    /\ fig = r.fig
    /\ df = r.df
    /\ indicator_options = r.indicator_options
    /\ query = r.query

Init ==
    /\ data \in Tables(ObsRows, MaxSessionRows)
    /\ metadata \in SessionMeta
    /\ label_data = load_data(data, metadata)
    /\ Loaded(FirstRun(label_data))

\* the buttons the last run's page function rendered
ButtonsOf(s) ==
    IF s = "home" THEN {"Individual Analysis", "Cross-country Analysis"}
    ELSE IF s = "individual" THEN {"Nepal", "USA", "Estonia", "Sierra Leone"}
    ELSE {}

PressGoBack ==
    /\ backShown
    /\ Run(page, Press("Go Back"))

PressDestination ==
    \E b \in ButtonsOf(shown) : Run(page, Press(b))

ChangeMultiselect ==
    /\ shown \in COUNTRY_PAGES
    /\ \E S \in SUBSET Range(indicator_options) :
          /\ S # selected
          /\ Run(page, Pick(S))

ChangeSelectbox ==
    /\ shown = "cross"
    /\ \E i \in Range(indicators) :
          /\ i # selected_indicator
          /\ Run(page, Choose(i))

Next == PressGoBack \/ PressDestination \/ ChangeMultiselect \/ ChangeSelectbox

Spec == Init /\ [][Next]_vars

-----------------------------------------------------------------------------
(* The loader and the filters on their own, over every bounded pair of sources. *)
(* A filter reads label_data alone, so it is applied once to each loaded table. *)

QueryCountries == {"NPL", "EST", "SLE", "USA"}
QueryIds == {<<"A">>, <<"B">>, <<"a">>}

InitData ==
    /\ data \in Tables(ObsRows, MaxRows)
    /\ metadata \in Tables(MetaRows, MaxMeta)
    /\ label_data = load_data(data, metadata)
    /\ Loaded(FirstRun(label_data))

ApplyCountryFilter ==
    \E c \in QueryCountries :
        /\ query = NoQuery
        /\ df' = FilterByCountry(label_data, c)
        /\ indicator_options' = IndicatorOptions(df')
        /\ query' = CountryQuery(c)
        /\ UNCHANGED <<data, metadata, label_data, page, shown, backShown, clicked,
                       selected, selected_indicator, warning, fig>>

ApplyIndicatorFilter ==
    \E i \in QueryIds :
        /\ query = NoQuery
        /\ df' = FilterByIndicator(label_data, i)
        /\ indicator_options' = <<>>
        /\ query' = IndicatorQuery(i)
        /\ UNCHANGED <<data, metadata, label_data, page, shown, backShown, clicked,
                       selected, selected_indicator, warning, fig>>

NextData == ApplyCountryFilter \/ ApplyIndicatorFilter

SpecData == InitData /\ [][NextData]_vars

-----------------------------------------------------------------------------
(* Properties of the navigation, checked under Spec *)

\* the page each destination button names
ButtonPage == ("Individual Analysis" :> "individual") @@ ("Cross-country Analysis" :> "cross")
    @@ ("Nepal" :> "Nepal") @@ ("USA" :> "USA") @@ ("Estonia" :> "Estonia")
    @@ ("Sierra Leone" :> "Sierra Leone")

\* back() of the specification: the parent, and nothing on home
BackOf(p) == IF p = "home" THEN "home" ELSE PARENTS[p]

IsDestinationPress(ev) == ev.type = "button" /\ ev.label # "Go Back"

\* C1: at the end of every script run, the page function that ran is the one for
\* the value st.session_state.page holds, so the content on screen is the content
\* of the current navigation state.
RenderedIsCurrentPage == shown = page

\* C2: every press of a button that is on screen takes effect: a destination
\* button sets the page to the page it names, Go Back performs back().
EveryPressNavigates ==
    [][clicked'.type = "button" =>
          page' = IF clicked'.label = "Go Back" THEN BackOf(page)
                  ELSE ButtonPage[clicked'.label]]_vars

\* C3: the page is home when the session begins (no interaction yet) and is one of
\* the seven pages after any sequence of presses.
PageAlwaysKnown ==
    /\ page \in PAGES
    /\ clicked = NoEvent => page = "home"

PageAlwaysKnownWitness ==
    /\ page = "Sierra Leone"
    /\ shown = "Sierra Leone"
    /\ clicked.type = "button"

\* C4: Go Back sets the page to PARENTS[page] from every page but home, every page
\* but home has a parent, and on home Go Back is not offered and the page stays home.
BackAsClaimed ==
    [][/\ \A p \in PAGES \ {"home"} : p \in DOMAIN PARENTS
       /\ clicked' = Press("Go Back") => page' = BackOf(page)
       /\ page' = "home" => ~backShown']_vars

EmptySelectionWarns ==
    /\ (shown \in COUNTRY_PAGES /\ selected = {}) =>
          /\ warning
          /\ fig = None
          /\ page = shown
    /\ clicked = Pick({}) => (shown \in COUNTRY_PAGES /\ selected = {})

EmptySelectionWarnsWitness ==
    /\ clicked = Pick({})
    /\ shown = "Nepal"
    /\ indicator_options # <<>>
    /\ warning
    /\ fig = None

-----------------------------------------------------------------------------
(* Properties of the loader and the filters, checked under SpecData *)

\* at most one metadata row per indicator id
MetaUnique ==
    \A j, k \in 1..Len(metadata) :
        metadata[j].INDICATOR_ID = metadata[k].INDICATOR_ID => j = k

CountOf(t, r) == Cardinality({k \in 1..Len(t) : t[k] = r})

Normalized(id) == str_strip(str_upper(id))

MetaLabels(id) ==
    {metadata[k].INDICATOR_LABEL_EN :
        k \in {j \in 1..Len(metadata) : metadata[j].INDICATOR_ID = id}}

Expected(r, label) ==
    [country_id |-> r.country_id, INDICATOR_ID |-> Normalized(r.indicator_id),
     year |-> r.year, value |-> r.value, INDICATOR_LABEL_EN |-> label]

\* C6 as claimed: for every pair of sources the merged table has as many rows as
\* the observation source.
MergedRowCountAnyMetadata == Len(label_data) = Len(data)

\* C6 as amended: when the metadata source holds at most one row per indicator
\* id, the merged table has exactly as many rows as the observation source.
MergedRowCount == MetaUnique => Len(label_data) = Len(data)

MergedRowCountWitness ==
    /\ MetaUnique
    /\ Len(data) >= 2
    /\ \E k \in 1..Len(label_data) : label_data[k].INDICATOR_LABEL_EN = NaN
    /\ \E k \in 1..Len(label_data) : label_data[k].INDICATOR_LABEL_EN # NaN

\* C7: every observation row whose normalized id is a metadata id is in the merged
\* table with that entry's label, never a missing one; every observation row whose
\* normalized id is no metadata id is in the merged table with a missing label.
LabelsCarried ==
    /\ \A k \in 1..Len(data) :
          LET ls == MetaLabels(Normalized(data[k].indicator_id))
          IN  IF ls # {}
              THEN \A l \in ls : CountOf(label_data, Expected(data[k], l)) >= 1
              ELSE CountOf(label_data, Expected(data[k], NaN)) >= 1
    /\ \A j \in 1..Len(label_data) :
          LET ls == MetaLabels(label_data[j].INDICATOR_ID)
          IN  IF ls # {}
              THEN label_data[j].INDICATOR_LABEL_EN \in ls
              ELSE label_data[j].INDICATOR_LABEL_EN = NaN

LabelsCarriedWitness ==
    /\ \E k \in 1..Len(data) :
          /\ data[k].indicator_id # Normalized(data[k].indicator_id)
          /\ MetaLabels(Normalized(data[k].indicator_id)) # {}
    /\ \E k \in 1..Len(data) : MetaLabels(Normalized(data[k].indicator_id)) = {}
    /\ \E j \in 1..Len(label_data) : label_data[j].INDICATOR_LABEL_EN = "L2"
    /\ \E j \in 1..Len(label_data) : label_data[j].INDICATOR_LABEL_EN = NaN

\* the country filter returned exactly the rows of the merged table for country c
ExactlyCountryRows(c) ==
    /\ \A k \in 1..Len(df) : df[k].country_id = c
    /\ \A j \in 1..Len(label_data) :
          label_data[j].country_id = c =>
              CountOf(df, label_data[j]) = CountOf(label_data, label_data[j])

\* C8 as claimed: the country filter returns exactly the rows of that country, and
\* the option list is ascending by indicator id with each id at most once.
CountryFilterStrict ==
    query.kind = "country" =>
        /\ ExactlyCountryRows(query.country)
        /\ \A j, k \in 1..Len(indicator_options) :
              j < k => StrLess(indicator_options[j], indicator_options[k])

\* C8 as amended: the country filter returns exactly the rows of that country and
\* the option list is ascending by indicator id; it holds each id at most once when
\* the metadata source holds at most one row per indicator id.
CountryFilter ==
    query.kind = "country" =>
        /\ ExactlyCountryRows(query.country)
        /\ \A j, k \in 1..Len(indicator_options) :
              j < k => ~StrLess(indicator_options[k], indicator_options[j])
        /\ MetaUnique =>
              \A j, k \in 1..Len(indicator_options) :
                  indicator_options[j] = indicator_options[k] => j = k

CountryFilterWitness ==
    /\ query = CountryQuery("NPL")
    /\ MetaUnique
    /\ Len(indicator_options) = 2
    /\ Len(df) = 3
    /\ \E k \in 1..Len(df) : df[k].INDICATOR_ID = <<"B">> /\ k < Len(df)

\* C10: the indicator filter returns only rows with indicator id i, holds every
\* row of the merged table with that id (so every observation row whose normalized
\* id is i), and holds no row twice.
IndicatorFilter ==
    query.kind = "indicator" =>
        /\ \A k \in 1..Len(df) : df[k].INDICATOR_ID = query.ind
        /\ \A j \in 1..Len(label_data) :
              label_data[j].INDICATOR_ID = query.ind => CountOf(df, label_data[j]) >= 1
        /\ \A k \in 1..Len(data) :
              Normalized(data[k].indicator_id) = query.ind =>
                  \E j \in 1..Len(df) :
                      /\ df[j].country_id = data[k].country_id
                      /\ df[j].year = data[k].year
                      /\ df[j].value = data[k].value
        /\ \A j, k \in 1..Len(df) : df[j] = df[k] => j = k

IndicatorFilterWitness ==
    /\ query = IndicatorQuery(<<"A">>)
    /\ Len(df) = 2
    /\ Len(label_data) = 3
    /\ \A k \in 1..Len(label_data) : label_data[k].INDICATOR_ID = <<"A">>
    /\ \E k \in 1..Len(data) : data[k].indicator_id = <<" ", "A", " ">>

====
